---- MODULE Spec2Model ----
(***************************************************************************)
(* Model of cephNotificationMgmt.py: the CephNotificationMgr client, its   *)
(* eight operations, the requests they hand to the S3/SNS handles and the  *)
(* JSON text they return.                                                  *)
(*                                                                         *)
(* A Python str is a sequence of one-character strings, so that '+',       *)
(* str.lower() and prefix tests are computed rather than assumed.  JSON    *)
(* text is a sequence of tokens (whitespace, which JSON ignores, and       *)
(* string escaping are left out); json.dumps produces it and Loads parses  *)
(* it back.                                                                *)
(***************************************************************************)
EXTENDS Integers, Sequences, FiniteSets, TLC

\* ---------------------------------------------------------------------
\* String literals of the program and of the libraries it calls
\* ---------------------------------------------------------------------
AMQPS ==
    << "a", "m", "q", "p", "s", ":", "/", "/" >>
AMQP ==
    << "a", "m", "q", "p", ":", "/", "/" >>
BROKER ==
    << "b", "r", "o", "k", "e", "r" >>
TRUE_STR ==
    << "t", "r", "u", "e" >>
PY_TRUE ==
    << "T", "r", "u", "e" >>
PY_FALSE ==
    << "F", "a", "l", "s", "e" >>
K_error ==
    << "e", "r", "r", "o", "r" >>
ENCODE_FAILED ==
    << "J", "S", "O", "N", " ", "e", "n", "c", "o", "d", "e", " ", "f", "a", "i", "l", "e", "d", ":", " " >>
EV_CREATED ==
    << "s", "3", ":", "O", "b", "j", "e", "c", "t", "C", "r", "e", "a", "t", "e", "d", ":", "*" >>
EV_REMOVED ==
    << "s", "3", ":", "O", "b", "j", "e", "c", "t", "R", "e", "m", "o", "v", "e", "d", ":", "*" >>
K_TopicConfigurations ==
    << "T", "o", "p", "i", "c", "C", "o", "n", "f", "i", "g", "u", "r", "a", "t", "i", "o", "n", "s" >>
K_Id ==
    << "I", "d" >>
K_TopicArn ==
    << "T", "o", "p", "i", "c", "A", "r", "n" >>
K_Events ==
    << "E", "v", "e", "n", "t", "s" >>
K_ResponseMetadata ==
    << "R", "e", "s", "p", "o", "n", "s", "e", "M", "e", "t", "a", "d", "a", "t", "a" >>
K_HTTPStatusCode ==
    << "H", "T", "T", "P", "S", "t", "a", "t", "u", "s", "C", "o", "d", "e" >>
K_Buckets ==
    << "B", "u", "c", "k", "e", "t", "s" >>
K_Name ==
    << "N", "a", "m", "e" >>
K_CreationDate ==
    << "C", "r", "e", "a", "t", "i", "o", "n", "D", "a", "t", "e" >>
K_Topics ==
    << "T", "o", "p", "i", "c", "s" >>
K_Attributes ==
    << "A", "t", "t", "r", "i", "b", "u", "t", "e", "s" >>
MSG_KEYS ==
    << "k", "e", "y", "s", " ", "m", "u", "s", "t", " ", "b", "e", " ", "s", "t", "r", ",", " ", "i", "n", "t", ",", " ", "f", "l", "o", "a", "t", ",", " ", "b", "o", "o", "l", " ", "o", "r", " ", "N", "o", "n", "e", ",", " ", "n", "o", "t", " ", "t", "u", "p", "l", "e" >>
MSG_NOT_SERIALIZABLE ==
    << "O", "b", "j", "e", "c", "t", " ", "o", "f", " ", "t", "y", "p", "e", " ", "d", "a", "t", "e", "t", "i", "m", "e", " ", "i", "s", " ", "n", "o", "t", " ", "J", "S", "O", "N", " ", "s", "e", "r", "i", "a", "l", "i", "z", "a", "b", "l", "e" >>
MSG_CIRCULAR ==
    << "C", "i", "r", "c", "u", "l", "a", "r", " ", "r", "e", "f", "e", "r", "e", "n", "c", "e", " ", "d", "e", "t", "e", "c", "t", "e", "d" >>
MSG_CONCAT ==
    << "c", "a", "n", " ", "o", "n", "l", "y", " ", "c", "o", "n", "c", "a", "t", "e", "n", "a", "t", "e", " ", "s", "t", "r", " ", "(", "n", "o", "t", " ", "\"", "N", "o", "n", "e", "T", "y", "p", "e", "\"", ")", " ", "t", "o", " ", "s", "t", "r" >>
MSG_DENIED ==
    << "A", "c", "c", "e", "s", "s", "D", "e", "n", "i", "e", "d" >>

\* ---------------------------------------------------------------------
\* Python values
\* ---------------------------------------------------------------------
PStr(s) == [t |-> "str", s |-> s]
PInt(n) == [t |-> "int", n |-> n]
PNone == [t |-> "None"]
\* An object json has no encoding for (a datetime, ...); s is its str().
PObj(s) == [t |-> "obj", s |-> s]
\* The empty tuple: legal as a dict key in Python, not in JSON.
PTuple == [t |-> "tuple"]
\* A container that holds itself.
PCyclic == [t |-> "cyclic"]
PList(items) == [t |-> "list", items |-> items]
\* items: a sequence of [k |-> key value, v |-> value], in insertion order.
PDict(items) == [t |-> "dict", items |-> items]
Item(k, v) == [k |-> k, v |-> v]

\* str(verify_ssl) for a bool
PyStrBool(b) == IF b THEN PY_TRUE ELSE PY_FALSE

LowerChar(c) ==
    CASE c = "T" -> "t"
      [] c = "F" -> "f"
      [] c = "A" -> "a"
      [] c = "D" -> "d"
      [] OTHER -> c

\* str.lower()
Lower(s) == [i \in 1..Len(s) |-> LowerChar(s[i])]

\* `if x:` for a str
Truthy(s) == Len(s) > 0

\* 'literal' + x: a str for a str, TypeError for anything else
PyConcat(lit, x) ==
    IF x.t = "str"
      THEN [ok |-> TRUE, s |-> lit \o x.s]
      ELSE [ok |-> FALSE, exc |-> MSG_CONCAT]

\* ---------------------------------------------------------------------
\* json.dumps(obj, indent=2, default=str)
\* ---------------------------------------------------------------------
Tok(k) == [k |-> k]
StrTok(s) == [k |-> "str", s |-> s]
NumTok(n) == [k |-> "num", n |-> n]

EncOk(text) == [ok |-> TRUE, text |-> text]
EncErr(msg) == [ok |-> FALSE, exc |-> msg]

RECURSIVE Encode(_), EncodeItems(_, _), EncodeElems(_, _)
\* The encoder: native values as themselves, anything else through
\* default=str; a key that is not a str is a TypeError, a container that
\* holds itself a ValueError.
Encode(v) ==
    CASE v.t = "str" -> EncOk(<<StrTok(v.s)>>)
      [] v.t = "int" -> EncOk(<<NumTok(v.n)>>)
      [] v.t = "None" -> EncOk(<<Tok("null")>>)
      [] v.t = "obj" -> EncOk(<<StrTok(v.s)>>)
      [] v.t = "tuple" -> EncOk(<<Tok("["), Tok("]")>>)
      [] v.t = "cyclic" -> EncErr(MSG_CIRCULAR)
      [] v.t = "list" ->
           IF v.items = <<>> THEN EncOk(<<Tok("["), Tok("]")>>)
           ELSE EncodeElems(v.items, <<Tok("[")>>)
      [] v.t = "dict" ->
           IF v.items = <<>> THEN EncOk(<<Tok("{"), Tok("}")>>)
           ELSE EncodeItems(v.items, <<Tok("{")>>)

EncodeElems(items, acc) ==
    LET e == Encode(Head(items)) IN
    IF ~e.ok THEN e
    ELSE IF Len(items) = 1 THEN EncOk(acc \o e.text \o <<Tok("]")>>)
    ELSE EncodeElems(Tail(items), acc \o e.text \o <<Tok(",")>>)

EncodeItems(items, acc) ==
    LET it == Head(items) IN
    IF it.k.t # "str" THEN EncErr(MSG_KEYS)
    ELSE LET e == Encode(it.v) IN
         IF ~e.ok THEN e
         ELSE LET one == acc \o <<StrTok(it.k.s), Tok(":")>> \o e.text IN
              IF Len(items) = 1 THEN EncOk(one \o <<Tok("}")>>)
              ELSE EncodeItems(Tail(items), one \o <<Tok(",")>>)

\* json.dumps(obj, indent=2): without default=str an object json has no
\* encoding for is a TypeError.
RECURSIVE HasObj(_)
HasObj(v) ==
    CASE v.t = "obj" -> TRUE
      [] v.t = "list" -> \E i \in DOMAIN v.items : HasObj(v.items[i])
      [] v.t = "dict" -> \E i \in DOMAIN v.items : HasObj(v.items[i].v)
      [] OTHER -> FALSE

json_dumps_no_default(obj) ==
    IF HasObj(obj) THEN EncErr(MSG_NOT_SERIALIZABLE) ELSE Encode(obj)

json_dumps(obj) == Encode(obj)

\* ---------------------------------------------------------------------
\* Reading JSON text back (what a caller's json.loads does)
\* ---------------------------------------------------------------------
JStr(s) == [t |-> "str", s |-> s]
JNum(n) == [t |-> "int", n |-> n]
JNull == [t |-> "None"]
JList(items) == [t |-> "list", items |-> items]
JObj(items) == [t |-> "dict", items |-> items]
ParseFail == [ok |-> FALSE]
Parsed(v, rest) == [ok |-> TRUE, v |-> v, rest |-> rest]

RECURSIVE ParseValue(_), ParseMembers(_, _), ParseElements(_, _)
ParseValue(toks) ==
    IF toks = <<>> THEN ParseFail
    ELSE LET h == Head(toks)
             r == Tail(toks)
         IN CASE h.k = "str" -> Parsed(JStr(h.s), r)
              [] h.k = "num" -> Parsed(JNum(h.n), r)
              [] h.k = "null" -> Parsed(JNull, r)
              [] h.k = "{" ->
                   IF r # <<>> /\ Head(r).k = "}" THEN Parsed(JObj(<<>>), Tail(r))
                   ELSE ParseMembers(r, <<>>)
              [] h.k = "[" ->
                   IF r # <<>> /\ Head(r).k = "]" THEN Parsed(JList(<<>>), Tail(r))
                   ELSE ParseElements(r, <<>>)
              [] OTHER -> ParseFail

ParseMembers(toks, acc) ==
    IF Len(toks) < 3 THEN ParseFail
    ELSE IF toks[1].k # "str" \/ toks[2].k # ":" THEN ParseFail
    ELSE LET pv == ParseValue(SubSeq(toks, 3, Len(toks))) IN
         IF ~pv.ok THEN ParseFail
         ELSE IF pv.rest = <<>> THEN ParseFail
         ELSE LET acc2 == Append(acc, Item(JStr(toks[1].s), pv.v)) IN
              CASE Head(pv.rest).k = "}" -> Parsed(JObj(acc2), Tail(pv.rest))
                [] Head(pv.rest).k = "," -> ParseMembers(Tail(pv.rest), acc2)
                [] OTHER -> ParseFail

ParseElements(toks, acc) ==
    LET pv == ParseValue(toks) IN
    IF ~pv.ok THEN ParseFail
    ELSE IF pv.rest = <<>> THEN ParseFail
    ELSE LET acc2 == Append(acc, pv.v) IN
         CASE Head(pv.rest).k = "]" -> Parsed(JList(acc2), Tail(pv.rest))
           [] Head(pv.rest).k = "," -> ParseElements(Tail(pv.rest), acc2)
           [] OTHER -> ParseFail

\* The whole text is one JSON value.
Loads(text) ==
    LET p == ParseValue(text) IN
    IF p.ok THEN (IF p.rest = <<>> THEN [ok |-> TRUE, v |-> p.v] ELSE ParseFail)
    ELSE ParseFail

\* The top-level keys of a parsed object.
TopKeys(v) == IF v.t = "dict" THEN {v.items[i].k.s : i \in DOMAIN v.items} ELSE {}

\* What a renderable Python value reads back as: objects as their str().
RECURSIVE AsJson(_)
AsJson(v) ==
    CASE v.t = "obj" -> JStr(v.s)
      [] v.t = "tuple" -> JList(<<>>)
      [] v.t = "list" -> JList([i \in DOMAIN v.items |-> AsJson(v.items[i])])
      [] v.t = "dict" ->
           JObj([i \in DOMAIN v.items |-> Item(v.items[i].k, AsJson(v.items[i].v))])
      [] OTHER -> v
EP_GOOD ==
    << "h", "t", "t", "p", "s", ":", "/", "/", "r", "g", "w" >>
EP_NOSCHEME ==
    << "r", "g", "w" >>
HTTPS ==
    << "h", "t", "t", "p", "s", ":", "/", "/" >>
HTTP ==
    << "h", "t", "t", "p", ":", "/", "/" >>
PROFILE_DEFAULT ==
    << "d", "e", "f", "a", "u", "l", "t" >>
PROFILE_UNKNOWN ==
    << "n", "o", "s", "u", "c", "h" >>
AK ==
    << "A", "K" >>
SK ==
    << "S", "K" >>
SK_BAD ==
    << "b", "a", "d" >>
REGION_DEFAULT ==
    << "u", "s", "-", "e", "a", "s", "t", "-", "1" >>
MSG_PROFILE ==
    << "T", "h", "e", " ", "c", "o", "n", "f", "i", "g", " ", "p", "r", "o", "f", "i", "l", "e", " ", "(", "n", "o", "s", "u", "c", "h", ")", " ", "c", "o", "u", "l", "d", " ", "n", "o", "t", " ", "b", "e", " ", "f", "o", "u", "n", "d" >>
MSG_ENDPOINT ==
    << "I", "n", "v", "a", "l", "i", "d", " ", "e", "n", "d", "p", "o", "i", "n", "t", ":", " " >>
DATE ==
    << "2", "0", "2", "5", "-", "0", "1", "-", "0", "1", " ", "0", "0", ":", "0", "0", ":", "0", "0", "+", "0", "0", ":", "0", "0" >>
ARN1 ==
    << "a", "r", "n", ":", "t", "1" >>
ARN2 ==
    << "a", "r", "n", ":", "t", "2" >>
B1 ==
    << "b", "1" >>
B2 ==
    << "b", "2" >>
O1 ==
    << "o", "1" >>
O2 ==
    << "o", "2" >>
N1 ==
    << "n", "1" >>
EX1 ==
    << "e", "x", "1" >>
T1 ==
    << "t", "1" >>
URI1 ==
    << "h", ":", "5", "/", "v" >>
CA1 ==
    << "/", "c", "a" >>

\* ---------------------------------------------------------------------
\* Exceptions: a type and the message str(e) gives
\* ---------------------------------------------------------------------
Exc(type, msg) == [type |-> type, msg |-> msg]
str(e) == e.msg

\* ---------------------------------------------------------------------
\* Inputs
\* ---------------------------------------------------------------------
\* The most rules a bucket holds before this client touches it.
MaxRules == 2

Endpoints == {<<>>, EP_GOOD, EP_NOSCHEME}
Profiles == {<<>>, PROFILE_DEFAULT, PROFILE_UNKNOWN}
AccessKeys == {AK}
SecretKeys == {SK, SK_BAD}
Regions == {REGION_DEFAULT}
Buckets == {B1, B2}
Owners == {O1, O2}
Arns == {ARN1, ARN2}
RuleIds == {N1}
Exchanges == {EX1}
TopicNames == {T1}
\* amqp_uri: a str, or None from a caller whose setting is missing
Uris == {PStr(URI1), PStr(<<>>), PNone}
CaLocations == {<<>>, CA1}

\* ---------------------------------------------------------------------
\* The service side: profiles on disk, keys the gateway accepts, owners
\* ---------------------------------------------------------------------
KnownProfiles == {PROFILE_DEFAULT}
BucketOwner(b) == O1

StartsWith(s, p) == Len(s) >= Len(p) /\ SubSeq(s, 1, Len(p)) = p

\* botocore accepts an endpoint_url that has a scheme and a host.
ValidEndpoint(e) ==
    \/ StartsWith(e, HTTPS) /\ Len(e) > Len(HTTPS)
    \/ StartsWith(e, HTTP) /\ Len(e) > Len(HTTP)

\* boto3.Session(profile_name=...): ProfileNotFound for a profile that is
\* not configured.
boto3_Session(aws_profile) ==
    IF aws_profile \in KnownProfiles
      THEN [ok |-> TRUE, profile |-> aws_profile]
      ELSE [ok |-> FALSE, exc |-> Exc("ProfileNotFound", MSG_PROFILE)]

\* client(service, endpoint_url=..., ...): ValueError for an endpoint that
\* is no URL; otherwise a handle, built without a request being sent.
boto3_client(service, endpoint, creds) ==
    IF ValidEndpoint(endpoint)
      THEN [ok |-> TRUE,
            handle |-> [service |-> service, endpoint_url |-> endpoint,
                        creds |-> creds, signature_version |-> "s3v4",
                        use_ssl |-> TRUE, verify |-> FALSE]]
      ELSE [ok |-> FALSE, exc |-> Exc("ValueError", MSG_ENDPOINT \o endpoint)]

\* The gateway accepts the configured profile and the key pair AK/SK.
CredsOK(handle) ==
    IF "profile" \in DOMAIN handle.creds
      THEN handle.creds.profile \in KnownProfiles
      ELSE handle.creds.access_key = AK /\ handle.creds.secret_key = SK

\* ---------------------------------------------------------------------
\* Notification rules and the gateway's responses
\* ---------------------------------------------------------------------
EmptyDict == [x \in {} |-> x]

Rule(id, arn, events) == [Id |-> id, TopicArn |-> arn, Events |-> events]

\* The i-th rule some other client has put on a bucket.
ForeignRule(i) == Rule([j \in 1..i |-> "x"], ARN1, <<EV_CREATED>>)
ForeignRules(n) == [i \in 1..n |-> ForeignRule(i)]

RuleAsPy(r) ==
    PDict(<<Item(PStr(K_Id), PStr(r.Id)),
            Item(PStr(K_TopicArn), PStr(r.TopicArn)),
            Item(PStr(K_Events), PList([i \in DOMAIN r.Events |-> PStr(r.Events[i])]))>>)

Meta == Item(PStr(K_ResponseMetadata), PDict(<<Item(PStr(K_HTTPStatusCode), PInt(200))>>))

\* The response boto3 parses from the gateway's answer to req.
NormalResponse(req, rules) ==
    CASE req.api = "s3.list_buckets" ->
           PDict(<<Meta,
                   Item(PStr(K_Buckets),
                        PList(<<PDict(<<Item(PStr(K_Name), PStr(B1)),
                                        Item(PStr(K_CreationDate), PObj(DATE))>>)>>))>>)
      [] req.api = "sns.list_topics" ->
           PDict(<<Meta, Item(PStr(K_Topics), PList(<<>>))>>)
      [] req.api = "sns.get_topic_attributes" ->
           PDict(<<Meta, Item(PStr(K_Attributes), PDict(<<>>))>>)
      [] req.api = "sns.create_topic" ->
           PDict(<<Meta, Item(PStr(K_TopicArn), PStr(ARN1))>>)
      [] req.api = "sns.delete_topic" -> PDict(<<Meta>>)
      [] req.api = "s3.get_bucket_notification_configuration" ->
           PDict(<<Meta,
                   Item(PStr(K_TopicConfigurations),
                        PList([i \in DOMAIN rules[req.Bucket] |->
                                 RuleAsPy(rules[req.Bucket][i])]))>>)
      [] req.api = "s3.put_bucket_notification_configuration" -> PDict(<<Meta>>)

\* Responses json cannot render: a key that is no str, a self-reference.
UnrenderableResponses ==
    {PDict(<<Meta, Item(PTuple, PNone)>>), PDict(<<Meta, Item(PStr(K_Buckets), PCyclic)>>)}

\* What a failing call raises; MemoryError() has the empty message.
Failures ==
    {Exc("ClientError", MSG_DENIED), Exc("MemoryError", <<>>)}

\* The gateway refuses a request signed with keys it does not know, and a
\* request whose ExpectedBucketOwner is not the bucket's owner.
Rejected(handle, req) ==
    \/ ~CredsOK(handle)
    \/ /\ "ExpectedBucketOwner" \in DOMAIN req
       /\ req.ExpectedBucketOwner # BucketOwner(req.Bucket)

\* Every way the call self.<handle>.<api>(**req) can end.
RemoteOutcomes(handle, req, rules) ==
    LET failed == {[ok |-> FALSE, exc |-> e] : e \in Failures}
        done == {[ok |-> TRUE, resp |-> r] :
                   r \in {NormalResponse(req, rules)} \cup UnrenderableResponses}
    IN IF Rejected(handle, req) THEN failed ELSE failed \cup done

\* PutBucketNotificationConfiguration replaces the bucket's whole rule set:
\* with the TopicConfigurations given, or with none.
ApplyPut(rules, req) ==
    [rules EXCEPT ![req.Bucket] =
        IF "TopicConfigurations" \in DOMAIN req.NotificationConfiguration
          THEN req.NotificationConfiguration.TopicConfigurations
          ELSE <<>>]

\* The bucket rules a put can leave behind: replaced when the call returns;
\* untouched when the gateway refuses the request; either when the call
\* fails on the client's side, before or after the gateway has acted.
GatewayAfter(handle, req, o, rules) ==
    IF o.ok THEN {ApplyPut(rules, req)}
    ELSE IF Rejected(handle, req) \/ o.exc.type = "ClientError" THEN {rules}
    ELSE {rules, ApplyPut(rules, req)}

\* ---------------------------------------------------------------------
\* State
\* ---------------------------------------------------------------------
VARIABLES
    client,       \* the CephNotificationMgr instance: its two handles, or how __init__ ended
    bucketRules,  \* the gateway: each bucket's notification rules
    op,           \* the last operation invoked on the instance
    args,         \* its arguments
    issued,       \* the requests it handed to a handle, in order
    remote,       \* how its remote call ended
    result,       \* what the caller got: the returned text, or the exception raised
    before        \* bucketRules when the operation was invoked

vars == <<client, bucketRules, op, args, issued, remote, result, before>>

NoCall == [st |-> "none"]
Returned(text) == [kind |-> "returned", text |-> text]
Raised(e) == [kind |-> "raised", exc |-> e]

Init ==
    /\ client = [state |-> "none"]
    /\ bucketRules \in [Buckets -> {ForeignRules(n) : n \in 0..MaxRules}]
    /\ op = "none"
    /\ args = EmptyDict
    /\ issued = <<>>
    /\ remote = NoCall
    /\ result = [kind |-> "none"]
    /\ before = bucketRules

\* ---------------------------------------------------------------------
\* __init__
\* ---------------------------------------------------------------------
\* The two handles of the aws_profile branch, or the exception that ends it.
ProfileHandles(endpoint, aws_profile) ==
    LET session == boto3_Session(aws_profile) IN
    IF ~session.ok THEN Raised(session.exc)
    ELSE LET creds == [profile |-> session.profile]
             s3 == boto3_client("s3", endpoint, creds)
             sns == boto3_client("sns", endpoint, creds)
         IN IF ~s3.ok THEN Raised(s3.exc)
            ELSE IF ~sns.ok THEN Raised(sns.exc)
            ELSE [kind |-> "built", s3 |-> s3.handle, sns |-> sns.handle]

\* The two handles of the explicit-keys branch, or the exception that ends it.
KeyHandles(endpoint, access_key, secret_key, region) ==
    LET creds == [access_key |-> access_key, secret_key |-> secret_key,
                  region_name |-> region]
        s3 == boto3_client("s3", endpoint, creds)
        sns == boto3_client("sns", endpoint, creds)
    IN IF ~s3.ok THEN Raised(s3.exc)
       ELSE IF ~sns.ok THEN Raised(sns.exc)
       ELSE [kind |-> "built", s3 |-> s3.handle, sns |-> sns.handle]

\* CephNotificationMgr(endpoint, access_key, secret_key, region, aws_profile):
\* nothing in __init__ catches what boto3 raises.
Construct(endpoint, access_key, secret_key, region, aws_profile) ==
    LET built == IF Truthy(aws_profile)
                   THEN ProfileHandles(endpoint, aws_profile)
                   ELSE KeyHandles(endpoint, access_key, secret_key, region)
    IN /\ client.state # "ready"
       /\ client' = IF built.kind = "built"
                      THEN [state |-> "ready", s3 |-> built.s3, sns |-> built.sns]
                      ELSE [state |-> "raised", exc |-> built.exc]
       /\ UNCHANGED <<bucketRules, op, args, issued, remote, result, before>>

\* ---------------------------------------------------------------------
\* _to_json and the try/except every operation wraps its call in
\* ---------------------------------------------------------------------
ErrorEnvelope(msg) == PDict(<<Item(PStr(K_error), PStr(msg))>>)

to_json(obj) ==
    LET d == json_dumps(obj) IN
    IF d.ok THEN d.text
    ELSE json_dumps(ErrorEnvelope(ENCODE_FAILED \o d.exc)).text

\* The except branch returning the bare message, without the envelope.
ReplyBareMessage(o) ==
    IF o.ok THEN to_json(o.resp)
    ELSE to_json(PStr(str(o.exc)))

\* try: resp = call(); return _to_json(resp)
\* except Exception as e: return _to_json({"error": str(e)})
Reply(o) ==
    IF o.ok THEN to_json(o.resp)
    ELSE to_json(ErrorEnvelope(str(o.exc)))

RemoteOf(o) ==
    IF o.ok THEN [st |-> "ok", resp |-> o.resp] ELSE [st |-> "failed", exc |-> o.exc]

\* One operation that reaches its call: the request goes out once and the
\* reply is what the caller gets.
Invoke(name, a, req, o) ==
    /\ op' = name
    /\ args' = a
    /\ issued' = <<req>>
    /\ remote' = RemoteOf(o)
    /\ result' = Returned(Reply(o))
    /\ before' = bucketRules
    /\ UNCHANGED client

\* ---------------------------------------------------------------------
\* The requests
\* ---------------------------------------------------------------------
ListBucketsRequest == [api |-> "s3.list_buckets"]
ListTopicsRequest == [api |-> "sns.list_topics"]
GetTopicRequest(topic_arn) == [api |-> "sns.get_topic_attributes", TopicArn |-> topic_arn]
DeleteTopicRequest(topic_arn) == [api |-> "sns.delete_topic", TopicArn |-> topic_arn]

\* verify-ssl as str(verify_ssl), the lower() forgotten.
BaseAttributesNoLower(exchange, verify_ssl) ==
    ("amqp-exchange" :> exchange) @@ ("amqp-ack-level" :> BROKER)
      @@ ("use-ssl" :> TRUE_STR) @@ ("verify-ssl" :> PyStrBool(verify_ssl))

\* The attributes dict of create_amqp_topic before the push-endpoint is set.
BaseAttributes(exchange, verify_ssl) ==
    ("amqp-exchange" :> exchange) @@ ("amqp-ack-level" :> BROKER)
      @@ ("use-ssl" :> TRUE_STR) @@ ("verify-ssl" :> Lower(PyStrBool(verify_ssl)))

\* The scheme chosen by verify_ssl instead of by ca_location.
TopicAttributesByVerify(exchange, amqp_uri, ca_location, verify_ssl) ==
    LET attributes == BaseAttributes(exchange, verify_ssl)
        withCa == IF Truthy(ca_location)
                    THEN ("ca-location" :> ca_location) @@ attributes
                    ELSE attributes
        ep == PyConcat(IF verify_ssl THEN AMQPS ELSE AMQP, amqp_uri)
    IN IF ep.ok
         THEN [ok |-> TRUE, attributes |-> ("push-endpoint" :> ep.s) @@ withCa]
         ELSE [ok |-> FALSE, exc |-> Exc("TypeError", ep.exc)]

\* The attributes dict create_amqp_topic submits, or the exception that
\* building it raises.
TopicAttributes(exchange, amqp_uri, ca_location, verify_ssl) ==
    LET attributes == BaseAttributes(exchange, verify_ssl) IN
    IF Truthy(ca_location)
      THEN LET ep == PyConcat(AMQPS, amqp_uri) IN
           IF ep.ok
             THEN [ok |-> TRUE,
                   attributes |-> ("push-endpoint" :> ep.s)
                                    @@ ("ca-location" :> ca_location) @@ attributes]
             ELSE [ok |-> FALSE, exc |-> Exc("TypeError", ep.exc)]
      ELSE LET ep == PyConcat(AMQP, amqp_uri) IN
           IF ep.ok
             THEN [ok |-> TRUE, attributes |-> ("push-endpoint" :> ep.s) @@ attributes]
             ELSE [ok |-> FALSE, exc |-> Exc("TypeError", ep.exc)]

CreateTopicRequest(topic_name, attributes) ==
    [api |-> "sns.create_topic", Name |-> topic_name, Attributes |-> attributes]

ListNotificationsRequest(bucket, owner) ==
    [api |-> "s3.get_bucket_notification_configuration",
     Bucket |-> bucket, ExpectedBucketOwner |-> owner]

\* The new rule appended to the rules the bucket holds.
CreateNotificationRequestAppend(bucket, topic_arn, notification_id) ==
    [api |-> "s3.put_bucket_notification_configuration",
     Bucket |-> bucket,
     NotificationConfiguration |->
        [TopicConfigurations |->
           Append(bucketRules[bucket],
                  Rule(notification_id, topic_arn, <<EV_CREATED, EV_REMOVED>>))]]

CreateNotificationRequest(bucket, topic_arn, notification_id) ==
    [api |-> "s3.put_bucket_notification_configuration",
     Bucket |-> bucket,
     NotificationConfiguration |->
        [TopicConfigurations |->
           <<Rule(notification_id, topic_arn, <<EV_CREATED, EV_REMOVED>>)>>]]

\* Only the bucket's first rule removed.
DeleteNotificationsRequestFirstOnly(bucket, owner) ==
    [api |-> "s3.put_bucket_notification_configuration",
     Bucket |-> bucket,
     NotificationConfiguration |->
        IF Len(bucketRules[bucket]) > 1
          THEN [TopicConfigurations |-> Tail(bucketRules[bucket])]
          ELSE EmptyDict]

\* The owner passed on, as list_notifications does.
DeleteNotificationsRequestWithOwner(bucket, owner) ==
    [api |-> "s3.put_bucket_notification_configuration",
     Bucket |-> bucket,
     ExpectedBucketOwner |-> owner,
     NotificationConfiguration |-> EmptyDict]

DeleteNotificationsRequest(bucket, owner) ==
    [api |-> "s3.put_bucket_notification_configuration",
     Bucket |-> bucket,
     NotificationConfiguration |-> EmptyDict]

\* ---------------------------------------------------------------------
\* The eight operations
\* ---------------------------------------------------------------------
list_buckets ==
    /\ client.state = "ready"
    /\ \E o \in RemoteOutcomes(client.s3, ListBucketsRequest, bucketRules) :
         Invoke("list_buckets", EmptyDict, ListBucketsRequest, o)
    /\ UNCHANGED bucketRules

list_topics ==
    /\ client.state = "ready"
    /\ \E o \in RemoteOutcomes(client.sns, ListTopicsRequest, bucketRules) :
         Invoke("list_topics", EmptyDict, ListTopicsRequest, o)
    /\ UNCHANGED bucketRules

get_topic(topic_arn) ==
    /\ client.state = "ready"
    /\ \E o \in RemoteOutcomes(client.sns, GetTopicRequest(topic_arn), bucketRules) :
         Invoke("get_topic", [topic_arn |-> topic_arn], GetTopicRequest(topic_arn), o)
    /\ UNCHANGED bucketRules

create_amqp_topic(exchange, topic_name, amqp_uri, ca_location, verify_ssl) ==
    LET a == [exchange |-> exchange, topic_name |-> topic_name, amqp_uri |-> amqp_uri,
              ca_location |-> ca_location, verify_ssl |-> verify_ssl]
        attrs == TopicAttributes(exchange, amqp_uri, ca_location, verify_ssl)
    IN /\ client.state = "ready"
       /\ IF attrs.ok
            THEN LET req == CreateTopicRequest(topic_name, attrs.attributes) IN
                 \E o \in RemoteOutcomes(client.sns, req, bucketRules) :
                    Invoke("create_amqp_topic", a, req, o)
            ELSE \* raised before the try block is entered
                 /\ op' = "create_amqp_topic"
                 /\ args' = a
                 /\ issued' = <<>>
                 /\ remote' = NoCall
                 /\ result' = Raised(attrs.exc)
                 /\ before' = bucketRules
                 /\ UNCHANGED client
       /\ UNCHANGED bucketRules

delete_topic(topic_arn) ==
    /\ client.state = "ready"
    /\ \E o \in RemoteOutcomes(client.sns, DeleteTopicRequest(topic_arn), bucketRules) :
         Invoke("delete_topic", [topic_arn |-> topic_arn], DeleteTopicRequest(topic_arn), o)
    /\ UNCHANGED bucketRules

list_notifications(bucket, owner) ==
    LET req == ListNotificationsRequest(bucket, owner) IN
    /\ client.state = "ready"
    /\ \E o \in RemoteOutcomes(client.s3, req, bucketRules) :
         Invoke("list_notifications", [bucket |-> bucket, owner |-> owner], req, o)
    /\ UNCHANGED bucketRules

create_notification(bucket, topic_arn, notification_id) ==
    LET req == CreateNotificationRequest(bucket, topic_arn, notification_id) IN
    /\ client.state = "ready"
    /\ \E o \in RemoteOutcomes(client.s3, req, bucketRules) :
         /\ Invoke("create_notification",
                   [bucket |-> bucket, topic_arn |-> topic_arn,
                    notification_id |-> notification_id], req, o)
         /\ bucketRules' \in GatewayAfter(client.s3, req, o, bucketRules)

delete_notifications(bucket, owner) ==
    LET req == DeleteNotificationsRequest(bucket, owner) IN
    /\ client.state = "ready"
    /\ \E o \in RemoteOutcomes(client.s3, req, bucketRules) :
         /\ Invoke("delete_notifications", [bucket |-> bucket, owner |-> owner], req, o)
         /\ bucketRules' \in GatewayAfter(client.s3, req, o, bucketRules)

Next ==
    \/ \E e \in Endpoints, ak \in AccessKeys, sk \in SecretKeys, r \in Regions,
          p \in Profiles : Construct(e, ak, sk, r, p)
    \/ list_buckets
    \/ list_topics
    \/ \E t \in Arns : get_topic(t)
    \/ \E x \in Exchanges, n \in TopicNames, u \in Uris, ca \in CaLocations,
          v \in BOOLEAN : create_amqp_topic(x, n, u, ca, v)
    \/ \E t \in Arns : delete_topic(t)
    \/ \E b \in Buckets, o \in Owners : list_notifications(b, o)
    \/ \E b \in Buckets, t \in Arns, n \in RuleIds : create_notification(b, t, n)
    \/ \E b \in Buckets, o \in Owners : delete_notifications(b, o)

Spec == Init /\ [][Next]_vars

\* ---------------------------------------------------------------------
\* Reading a result
\* ---------------------------------------------------------------------
\* The structure the caller reads from the returned text.
ParsedResult == Loads(result.text)

\* json can render v: every dict key is a str and nothing holds itself.
RECURSIVE Renderable(_)
Renderable(v) ==
    CASE v.t = "cyclic" -> FALSE
      [] v.t = "list" -> \A i \in DOMAIN v.items : Renderable(v.items[i])
      [] v.t = "dict" ->
           \A i \in DOMAIN v.items :
              v.items[i].k.t = "str" /\ Renderable(v.items[i].v)
      [] OTHER -> TRUE

\* ---------------------------------------------------------------------
\* C1: every operation returns text that is valid JSON and never raises
\* to its caller, whatever its input and however its remote call ends.
\* ---------------------------------------------------------------------
C1_AlwaysReturnsJson ==
    op # "none" => result.kind = "returned" /\ ParsedResult.ok

\* ---------------------------------------------------------------------
\* C2 as claimed: after a failed remote call the returned text parses to
\* an object with the single key "error" whose value is a non-empty str.
\* ---------------------------------------------------------------------
C2_FailedCallNonEmptyError ==
    remote.st = "failed" =>
        /\ result.kind = "returned"
        /\ ParsedResult.ok
        /\ ParsedResult.v.t = "dict"
        /\ Len(ParsedResult.v.items) = 1
        /\ ParsedResult.v.items[1].k.s = K_error
        /\ ParsedResult.v.items[1].v.t = "str"
        /\ Len(ParsedResult.v.items[1].v.s) > 0

\* C2 as amended: after a failed remote call the returned text parses to
\* an object with the single key "error" whose value is exactly the
\* message str(e) of the failure, so it is empty when that message is.
C2_FailedCallErrorIsMessage ==
    remote.st = "failed" =>
        /\ result.kind = "returned"
        /\ ParsedResult.ok
        /\ ParsedResult.v = JObj(<<Item(JStr(<<"e", "r", "r", "o", "r">>),
                                        JStr(remote.exc.msg))>>)
        /\ (Len(ParsedResult.v.items[1].v.s) > 0 <=> remote.exc.msg # <<>>)

C2_Witness ==
    /\ remote.st = "failed"
    /\ remote.exc.msg = <<>>
    /\ result.kind = "returned"
    /\ TopKeys(ParsedResult.v) = {K_error}

\* ---------------------------------------------------------------------
\* C3 as claimed: after a successful remote call, whatever the response,
\* the returned text parses to a structure with no top-level "error" key.
\* ---------------------------------------------------------------------
C3_SuccessHasNoErrorKey ==
    remote.st = "ok" =>
        /\ result.kind = "returned"
        /\ ParsedResult.ok
        /\ K_error \notin TopKeys(ParsedResult.v)

\* C3 as amended: after a successful remote call whose response json can
\* render, the returned text parses back to that response (objects as
\* their str()) and has no top-level "error" key; when json cannot render
\* the response, the text is the single-key object {"error": "JSON encode
\* failed: ..."} although the call succeeded.
C3_SuccessRendersResponse ==
    remote.st = "ok" =>
        /\ result.kind = "returned"
        /\ ParsedResult.ok
        /\ IF Renderable(remote.resp)
             THEN /\ ParsedResult.v = AsJson(remote.resp)
                  /\ K_error \notin TopKeys(ParsedResult.v)
             ELSE /\ TopKeys(ParsedResult.v) = {K_error}
                  /\ Len(ParsedResult.v.items) = 1
                  /\ StartsWith(ParsedResult.v.items[1].v.s, ENCODE_FAILED)

C3_Witness ==
    /\ op = "list_buckets"
    /\ remote.st = "ok"
    /\ Renderable(remote.resp)
    /\ result.kind = "returned"
    /\ K_Buckets \in TopKeys(ParsedResult.v)

\* ---------------------------------------------------------------------
\* C4: the push-endpoint create_amqp_topic submits is amqps:// followed by
\* the queue URI when a CA path is given and amqp:// followed by the queue
\* URI when none is, whatever the verify-TLS flag.
\* ---------------------------------------------------------------------
C4_PushEndpointScheme ==
    (op = "create_amqp_topic" /\ issued # <<>>) =>
        LET ep == issued[1].Attributes["push-endpoint"]
            scheme == IF args.ca_location # <<>>
                        THEN <<"a", "m", "q", "p", "s", ":", "/", "/">>
                        ELSE <<"a", "m", "q", "p", ":", "/", "/">>
        IN /\ StartsWith(ep, scheme)
           /\ SubSeq(ep, Len(scheme) + 1, Len(ep)) = args.amqp_uri.s

C4_Witness ==
    /\ op = "create_amqp_topic"
    /\ issued # <<>>
    /\ args.verify_ssl = TRUE
    /\ args.ca_location = <<>>
    /\ args.amqp_uri.s # <<>>
    /\ issued[1].Attributes["push-endpoint"] = AMQP \o args.amqp_uri.s

\* ---------------------------------------------------------------------
\* C5: the attribute map create_amqp_topic submits holds amqp-exchange
\* (the input exchange), amqp-ack-level "broker", use-ssl "true",
\* verify-ssl "true" or "false" after the input flag, push-endpoint, and
\* ca-location (the CA path) exactly when a CA path is given; no other key.
\* ---------------------------------------------------------------------
C5_AttributeMap ==
    (op = "create_amqp_topic" /\ issued # <<>>) =>
        LET at == issued[1].Attributes IN
        /\ DOMAIN at =
             {"amqp-exchange", "amqp-ack-level", "use-ssl", "verify-ssl", "push-endpoint"}
               \cup (IF args.ca_location # <<>> THEN {"ca-location"} ELSE {})
        /\ at["amqp-exchange"] = args.exchange
        /\ at["amqp-ack-level"] = <<"b", "r", "o", "k", "e", "r">>
        /\ at["use-ssl"] = <<"t", "r", "u", "e">>
        /\ at["verify-ssl"] = IF args.verify_ssl THEN <<"t", "r", "u", "e">>
                                                 ELSE <<"f", "a", "l", "s", "e">>
        /\ (args.ca_location # <<>> => at["ca-location"] = args.ca_location)

C5_Witness ==
    /\ op = "create_amqp_topic"
    /\ issued # <<>>
    /\ args.ca_location = CA1
    /\ args.verify_ssl = FALSE
    /\ issued[1].Attributes["ca-location"] = CA1
    /\ issued[1].Attributes["verify-ssl"] = <<"f", "a", "l", "s", "e">>

\* ---------------------------------------------------------------------
\* C6: create_notification submits, for the named bucket, one rule with
\* the given id and topic and the two events; when the call succeeds the
\* bucket holds exactly that rule, however many it held before, and the
\* other buckets are as they were.
\* ---------------------------------------------------------------------
C6_CreateReplaces ==
    op = "create_notification" =>
        LET rule == [Id |-> args.notification_id, TopicArn |-> args.topic_arn,
                     Events |-> <<EV_CREATED, EV_REMOVED>>]
        IN /\ issued = <<[api |-> "s3.put_bucket_notification_configuration",
                          Bucket |-> args.bucket,
                          NotificationConfiguration |-> [TopicConfigurations |-> <<rule>>]]>>
           /\ remote.st = "ok" =>
                /\ bucketRules[args.bucket] = <<rule>>
                /\ \A b \in Buckets \ {args.bucket} : bucketRules[b] = before[b]

C6_Witness ==
    /\ op = "create_notification"
    /\ remote.st = "ok"
    /\ Len(before[args.bucket]) = MaxRules
    /\ Len(bucketRules[args.bucket]) = 1

\* ---------------------------------------------------------------------
\* C7: delete_notifications submits the empty configuration for the named
\* bucket whatever rules it holds, and a successful call leaves the bucket
\* without rules; a second call right after the first submits the same
\* request and, when both succeed, changes nothing at the gateway.
\* ---------------------------------------------------------------------
C7_SubmitsEmpty ==
    op = "delete_notifications" =>
        /\ issued = <<[api |-> "s3.put_bucket_notification_configuration",
                       Bucket |-> args.bucket,
                       NotificationConfiguration |-> EmptyDict]>>
        /\ remote.st = "ok" => bucketRules[args.bucket] = <<>>

C7_SecondCall ==
    (/\ op = "delete_notifications"
     /\ \E b \in Buckets, o \in Owners : delete_notifications(b, o)
     /\ args'.bucket = args.bucket)
      => /\ issued' = issued
         /\ (remote.st = "ok" /\ remote'.st = "ok") => bucketRules' = bucketRules

\* C7: both parts, in every state and on every step.
C7_DeleteIdempotent == [](C7_SubmitsEmpty) /\ [][C7_SecondCall]_vars

C7_Witness ==
    /\ op = "delete_notifications"
    /\ remote.st = "ok"
    /\ Len(before[args.bucket]) = MaxRules
    /\ bucketRules[args.bucket] = <<>>

\* ---------------------------------------------------------------------
\* C8: constructing the client cannot fail, whatever the endpoint, the
\* keys, the region and the profile.
\* ---------------------------------------------------------------------
C8_ConstructionCannotFail == client.state # "raised"

\* ---------------------------------------------------------------------
\* C9: every invocation of an operation issues exactly one remote call.
\* ---------------------------------------------------------------------
C9_ExactlyOneRemoteCall == op # "none" => Len(issued) = 1

\* ---------------------------------------------------------------------
\* C10: the request of delete_notifications is the same for every owner
\* and carries no ExpectedBucketOwner, so the calls it can end in are the
\* same for a right and a wrong owner; of all operations only
\* list_notifications passes the owner on.
\* ---------------------------------------------------------------------
C10_DeleteIgnoresOwner ==
    /\ op = "delete_notifications" =>
         /\ "ExpectedBucketOwner" \notin DOMAIN issued[1]
         /\ \A o \in Owners :
              /\ issued = <<DeleteNotificationsRequest(args.bucket, o)>>
              /\ RemoteOutcomes(client.s3, DeleteNotificationsRequest(args.bucket, o), before)
                   = RemoteOutcomes(client.s3, issued[1], before)
    /\ issued # <<>> =>
         ("ExpectedBucketOwner" \in DOMAIN issued[1] <=> op = "list_notifications")
    /\ op = "list_notifications" => issued[1].ExpectedBucketOwner = args.owner

C10_Witness ==
    /\ op = "delete_notifications"
    /\ args.owner # BucketOwner(args.bucket)
    /\ remote.st = "ok"
    /\ before[args.bucket] # <<>>
    /\ bucketRules[args.bucket] = <<>>
====
